---- MODULE Spec2Model ----
(***************************************************************************)
(* Model of normalization/transform_catalog/stream_processor.py: the       *)
(* StreamProcessor that lowers one (possibly nested) stream into four dbt  *)
(* models, allocates their table names in a shared registry                *)
(* (table_context) and discovers the nested children streams.              *)
(*                                                                         *)
(* Strings that are identifiers are represented by the sequence of tokens  *)
(* obtained by splitting them on "_": "a_1_ab1" is <<"a","1","ab1">> and   *)
(* "_airbyte_x" is <<"","airbyte","x">>.  f"{x}_{y}" is then x \o y, and   *)
(* two identifiers are the same string iff they are the same sequence.     *)
(* The empty string is <<>>.                                               *)
(***************************************************************************)
EXTENDS Integers, Sequences, FiniteSets, TLC

\* ------------------------------------------------------------------ bounds
\* range(1, 1000) of generate_new_table_name, reduced
MaxAttempts == 2
\* number of top-level streams of one catalog
MaxStreams == 2

\* ------------------------------------------------------------ evaluation
\* python evaluates an argument once, before the call: a call is written
\* Only({body : parameter \in {argument}}), the one value of body for the
\* value of the argument
Only(S) == CHOOSE r \in S : TRUE

\* ------------------------------------------------------- JSON schema values
Str(s) == [k |-> "str", s |-> s]
None == [k |-> "none"]
Dict(pairs) == [k |-> "dict", kv |-> pairs]
List(items) == [k |-> "list", xs |-> items]

IsDict(v) == v.k = "dict"
Has(d, key) == \E i \in 1..Len(d.kv) : d.kv[i][1] = key
Get(d, key) == d.kv[CHOOSE i \in 1..Len(d.kv) : d.kv[i][1] = key][2]
Keys(d) == [i \in 1..Len(d.kv) |-> d.kv[i][1]]
\* python truthiness of a properties value: None and {} are falsy
Truthy(v) == v.k = "dict" /\ Len(v.kv) > 0

\* dict.update: an existing key keeps its position and takes the new value
Put(d, key, val) ==
    IF Has(d, key)
    THEN Dict([i \in 1..Len(d.kv) |-> IF d.kv[i][1] = key THEN <<key, val>> ELSE d.kv[i]])
    ELSE Dict(Append(d.kv, <<key, val>>))

RECURSIVE UpdateFrom(_, _, _)
UpdateFrom(d, other, i) ==
    IF i > Len(other.kv) THEN d
    ELSE UpdateFrom(Put(d, other.kv[i][1], other.kv[i][2]), other, i + 1)

Update(d, other) == UpdateFrom(d, other, 1)

\* --------------------------------------------------------------- utils.py
is_string(t) == t.k = "str" /\ t.s = "string"
is_integer(t) == t.k = "str" /\ t.s = "integer"
is_number(t) == t.k = "str" /\ t.s = "number"
is_boolean(t) == t.k = "str" /\ t.s = "boolean"
is_array(t) == t.k = "str" /\ t.s = "array"
is_object(t) == t.k = "str" /\ t.s = "object"
is_simple_property(t) == is_string(t) \/ is_integer(t) \/ is_number(t) \/ is_boolean(t)
is_airbyte_column(name) == Len(name) >= 3 /\ name[1] = "" /\ name[2] = "airbyte"
is_combining_node(d) == Has(d, <<"anyOf">>) \/ Has(d, <<"oneOf">>) \/ Has(d, <<"allOf">>)
jinja_call(command) == [jinja |-> command]

\* ------------------------------------------------ DestinationNameTransformer
\* identifier casing of the destination, token by token
Lower(tok) == CASE tok = "A" -> "a" [] tok = "B" -> "b" [] tok = "X" -> "x" [] OTHER -> tok

normalize_table_name(name) == [i \in 1..Len(name) |-> Lower(name[i])]

normalize_column_name(name, in_jinja) ==
    IF in_jinja THEN <<"'">> \o [i \in 1..Len(name) |-> Lower(name[i])] \o <<"'">>
    ELSE [i \in 1..Len(name) |-> Lower(name[i])]

\* str(i) for the attempt counter
IntStr(i) == <<"1", "2", "3", "4", "5", "6", "7", "8", "9">>[i]

\* ----------------------------------------------------------- StreamProcessor
\* StreamProcessor.init: a top-level stream
init(stream_name, output_directory, raw_schema, schema, json_column_name, properties) ==
    [stream_name |-> stream_name,
     output_directory |-> output_directory,
     raw_schema |-> raw_schema,
     schema |-> schema,
     json_column_name |-> json_column_name,
     properties |-> properties,
     parent |-> <<>>,
     is_nested_array |-> FALSE,
     json_path |-> <<stream_name>>]

\* StreamProcessor.initFromParent: parent is <<>> (None) or <<the parent>>
initFromParent(parent, child_name, json_column_name, properties, is_nested_array) ==
    [init(child_name, parent.output_directory, parent.raw_schema, parent.schema,
          json_column_name, properties)
        EXCEPT !.parent = <<parent>>,
               !.is_nested_array = is_nested_array,
               !.json_path = parent.json_path \o <<child_name>>]

HasParent(self) == Len(self.parent) > 0

\* variant: a nested stream is named after its parent and its field
table_name_qualified(self) ==
    IF HasParent(self)
    THEN normalize_table_name(self.parent[1].stream_name \o self.stream_name)
    ELSE normalize_table_name(self.stream_name)

table_name(self) == normalize_table_name(self.stream_name)

hash_id(self) == normalize_column_name(<<"", "airbyte">> \o table_name(self) \o <<"hashid">>, FALSE)

\* variant: a nested stream chains on its own hash id
parent_hash_id_own(self) == IF HasParent(self) THEN hash_id(self) ELSE <<>>

parent_hash_id(self) == IF HasParent(self) THEN hash_id(self.parent[1]) ELSE <<>>

current_json_path(self) == self.json_path

sql_table_comment(self) ==
    IF Len(self.json_path) > 1
    THEN [comment |-> table_name(self), from |-> current_json_path(self)]
    ELSE [comment |-> table_name(self)]

\* variant: every model is configured with the final schema
get_schema_final_only(self, is_intermediate) == self.schema

get_schema(self, is_intermediate) == IF is_intermediate THEN self.raw_schema ELSE self.schema

ref_table(name) == [ref |-> name]

\* the fields of self.properties.keys() that are not airbyte columns, in order
UserFields(self) ==
    IF IsDict(self.properties)
    THEN SelectSeq(Keys(self.properties), LAMBDA f : ~is_airbyte_column(f))
    ELSE <<>>

unnesting_before_query(self) ==
    IF HasParent(self) /\ self.is_nested_array
    THEN jinja_call([fn |-> "unnest_cte",
                     quoted_name |-> normalize_table_name(self.parent[1].stream_name),
                     quoted_field |-> normalize_column_name(self.stream_name, TRUE)])
    ELSE <<>>

unnesting_after_query(self) ==
    IF HasParent(self)
    THEN [cross_join |-> IF self.is_nested_array
                         THEN jinja_call([fn |-> "cross_join_unnest",
                                          quoted_name |-> <<"'">> \o normalize_table_name(self.parent[1].stream_name) \o <<"'">>,
                                          quoted_field |-> normalize_column_name(self.stream_name, TRUE)])
                         ELSE <<>>,
          not_null |-> normalize_column_name(self.stream_name, FALSE)]
    ELSE <<>>

\* ---- stage 1: json parsing
\* the macro extract_json_column picks for a definition
json_extract_fn(definition) ==
    IF ~Has(definition, <<"type">>) THEN "json_extract"
    ELSE IF is_array(Get(definition, <<"type">>)) THEN "json_extract_array"
    ELSE IF is_object(Get(definition, <<"type">>)) THEN "json_extract"
    ELSE IF is_simple_property(Get(definition, <<"type">>)) THEN "json_extract_scalar"
    ELSE "json_extract"

extract_json_column(property_name, json_column_name, definition) ==
    [expr |-> jinja_call([fn |-> json_extract_fn(definition), col |-> json_column_name,
                          path |-> <<property_name>>]),
     as |-> normalize_column_name(property_name, FALSE)]

extract_json_columns(self) ==
    Only({[i \in 1..Len(fs) |->
             extract_json_column(fs[i], self.json_column_name, Get(self.properties, fs[i]))] :
            fs \in {UserFields(self)}})

generate_json_parsing_model(self, from_table) ==
    [template |-> "json_parsing",
     unnesting_before_query |-> unnesting_before_query(self),
     parent_hash_id |-> parent_hash_id(self),
     fields |-> extract_json_columns(self),
     from_table |-> from_table,
     unnesting_after_query |-> unnesting_after_query(self),
     sql_table_comment |-> sql_table_comment(self)]

\* ---- stage 2: column typing
cast_property_type_as_array(self, property_name) ==
    normalize_column_name(property_name, FALSE)

cast_property_type_as_object(self, property_name) == jinja_call("type_json()")

\* f"cast({column_name} as {sql_type}) as {column_name}"
cast_as(column_name, sql_type) ==
    [expr |-> [fn |-> "cast", col |-> column_name, type |-> sql_type], as |-> column_name]

\* the branches of cast_property_type on definition["type"]
cast_by_type(self, property_name, column_name, type) ==
    IF is_array(type) THEN [col |-> cast_property_type_as_array(self, property_name)]
    ELSE IF is_object(type)
         THEN cast_as(column_name, cast_property_type_as_object(self, property_name))
    ELSE IF is_integer(type) THEN cast_as(column_name, jinja_call("dbt_utils.type_int()"))
    ELSE IF is_number(type) THEN cast_as(column_name, jinja_call("dbt_utils.type_float()"))
    ELSE IF is_boolean(type)
         THEN [expr |-> jinja_call([fn |-> "cast_to_boolean",
                                    col |-> normalize_column_name(property_name, TRUE)]),
               as |-> column_name]
    ELSE IF is_string(type) THEN cast_as(column_name, jinja_call("dbt_utils.type_string()"))
    ELSE [col |-> column_name]

cast_definition(self, property_name, column_name, definition) ==
    IF ~Has(definition, <<"type">>) THEN [col |-> column_name]
    ELSE cast_by_type(self, property_name, column_name, Get(definition, <<"type">>))

cast_property_type(self, property_name) ==
    cast_definition(self, property_name, normalize_column_name(property_name, FALSE),
                    Get(self.properties, property_name))

\* variant: airbyte columns are cast like the others
cast_property_types_unfiltered(self) ==
    Only({[i \in 1..Len(fs) |-> cast_property_type(self, fs[i])] :
            fs \in {Keys(self.properties)}})

cast_property_types(self) ==
    Only({[i \in 1..Len(fs) |-> cast_property_type(self, fs[i])] :
            fs \in {UserFields(self)}})

generate_column_typing_model(self, from_table) ==
    [template |-> "column_typing",
     parent_hash_id |-> parent_hash_id(self),
     fields |-> cast_property_types(self),
     from_table |-> from_table,
     sql_table_comment |-> sql_table_comment(self)]

\* ---- stage 3: id hashing
cast_column_to_string(column_name, definition) ==
    IF ~Has(definition, <<"type">>) THEN [col |-> column_name]
    ELSE IF is_boolean(Get(definition, <<"type">>))
         THEN [fn |-> "boolean_to_string", col |-> column_name]
    ELSE IF is_array(Get(definition, <<"type">>))
         THEN [fn |-> "array_to_string", col |-> column_name]
    ELSE [col |-> column_name]

safe_cast_to_string(property_name, definition) ==
    cast_column_to_string(normalize_column_name(property_name, TRUE), definition)

safe_cast_to_strings(self) ==
    Only({[i \in 1..Len(fs) |-> safe_cast_to_string(fs[i], Get(self.properties, fs[i]))] :
            fs \in {UserFields(self)}})

generate_id_hashing_model(self, from_table) ==
    [template |-> "id_hashing",
     parent_hash_id |-> parent_hash_id(self),
     fields |-> safe_cast_to_strings(self),
     hash_id |-> hash_id(self),
     from_table |-> from_table,
     sql_table_comment |-> sql_table_comment(self)]

\* ---- stage 4: final model
\* variant: airbyte columns are listed like the others
list_fields_unfiltered(self) ==
    Only({[i \in 1..Len(fs) |-> normalize_column_name(fs[i], FALSE)] :
            fs \in {Keys(self.properties)}})

list_fields(self) ==
    Only({[i \in 1..Len(fs) |-> normalize_column_name(fs[i], FALSE)] :
            fs \in {UserFields(self)}})

generate_final_model(self, from_table) ==
    [template |-> "final",
     parent_hash_id |-> parent_hash_id(self),
     fields |-> list_fields(self),
     hash_id |-> hash_id(self),
     from_table |-> from_table,
     sql_table_comment |-> sql_table_comment(self)]

\* ---- naming
\* variant: the index comes after the stage suffix
attempt_suffix_first(name, suffix, i) ==
    IF Len(suffix) > 0
    THEN normalize_table_name(name \o suffix \o <<IntStr(i)>>)
    ELSE normalize_table_name(name \o <<IntStr(i)>>)

\* the candidate of attempt i
attempt(name, suffix, i) ==
    IF Len(suffix) > 0
    THEN normalize_table_name(name \o <<IntStr(i)>> \o suffix)
    ELSE normalize_table_name(name \o <<IntStr(i)>>)

RECURSIVE suffix_loop(_, _, _, _)
\* variant: range(2, 1000)
suffix_loop_from_two(name, suffix, table_context, i) ==
    IF i = 1 /\ MaxAttempts > 1 THEN suffix_loop(name, suffix, table_context, 2)
    ELSE IF attempt(name, suffix, i) \notin table_context \/ i >= MaxAttempts
         THEN attempt(name, suffix, i)
    ELSE suffix_loop(name, suffix, table_context, i + 1)

\* the for loop of generate_new_table_name from attempt i on: the value of
\* new_table_name when the loop breaks or runs out
suffix_loop(name, suffix, table_context, i) ==
    IF attempt(name, suffix, i) \notin table_context THEN attempt(name, suffix, i)
    ELSE IF i >= MaxAttempts THEN attempt(name, suffix, i)
    ELSE suffix_loop(name, suffix, table_context, i + 1)

\* variant: inserts without looking
register_new_table_unchecked(table_context, name) ==
    [raised |-> FALSE, table_context |-> table_context \cup {name}]

\* variant: the registry keeps the last name only
register_new_table_replacing(table_context, name) ==
    IF name \notin table_context
    THEN [raised |-> FALSE, table_context |-> {name}]
    ELSE [raised |-> TRUE, table_context |-> table_context,
          error |-> [exc |-> "KeyError", msg |-> "Duplicate table", table |-> name]]

register_new_table(table_context, name) ==
    IF name \notin table_context
    THEN [raised |-> FALSE, table_context |-> table_context \cup {name}]
    ELSE [raised |-> TRUE, table_context |-> table_context,
          error |-> [exc |-> "KeyError", msg |-> "Duplicate table", table |-> name]]

\* lines 403-404: register the name, return it unless that raised
register_and_return(table_context, new_table_name) ==
    Only({register_new_table(table_context, name) @@ [name |-> name] :
            name \in {new_table_name}})

\* variant: the top-level final table goes through the suffix loop too
generate_new_table_name_no_priority(self, table_context, is_intermediate, suffix) ==
    register_and_return(table_context, suffix_loop(table_name(self), suffix, table_context, 1))

generate_new_table_name(self, table_context, is_intermediate, suffix) ==
    register_and_return(table_context,
                        IF ~is_intermediate /\ ~HasParent(self)
                        THEN table_name(self)
                        ELSE suffix_loop(table_name(self), suffix, table_context, 1))

output_sql_file(output_dir, file, json_path, header, sql) ==
    [output_dir |-> output_dir, file |-> file, json_path |-> json_path,
     header |-> header, sql |-> sql]

\* lines 375-379 of write_model, gen being what generate_new_table_name gave
write_named(self, gen, output, schema, sql) ==
    IF gen.raised THEN gen
    ELSE [raised |-> FALSE,
          table_context |-> gen.table_context,
          name |-> gen.name,
          written |-> output_sql_file(output, gen.name, current_json_path(self),
                                      [config_schema |-> schema], sql),
          ref |-> ref_table(gen.name)]

write_model(self, table_context, sql, is_intermediate, suffix) ==
    Only({write_named(self, gen,
                      IF is_intermediate
                      THEN <<self.output_directory, "airbyte_views", self.schema>>
                      ELSE <<self.output_directory, "airbyte_tables", self.schema>>,
                      get_schema(self, is_intermediate),
                      sql) :
            gen \in {generate_new_table_name(self, table_context, is_intermediate, suffix)}})

\* ---- nested properties
Join(path) == IF Len(path) = 0 THEN <<>>
              ELSE LET F[i \in 1..Len(path)] == IF i = 1 THEN path[1] ELSE F[i - 1] \o path[i]
                   IN F[Len(path)]

\* python "key in value" for a dict (its keys) or a list (its members)
In(key, v) == IF IsDict(v) THEN Has(v, <<key>>)
              ELSE \E i \in 1..Len(v.xs) : v.xs[i] = Str(key)

\* "if child: result.update(child)"
merge_child(result, child) == IF Truthy(child) THEN Update(result, child) ELSE result

RECURSIVE find_properties_object(_, _, _)
RECURSIVE fpo_members(_, _, _, _, _)

\* the two loops of find_properties_object over the members of a dict or list
fpo_members(current_path, field, properties, i, result) ==
    IF IsDict(properties)
    THEN IF i > Len(properties.kv) THEN result
         ELSE fpo_members(current_path, field, properties, i + 1,
                          merge_child(result,
                                      find_properties_object(current_path, properties.kv[i][1],
                                                             properties.kv[i][2])))
    ELSE IF i > Len(properties.xs) THEN result
         ELSE fpo_members(current_path, field, properties, i + 1,
                          merge_child(result,
                                      find_properties_object(current_path, field,
                                                             properties.xs[i])))

\* variant: a basic type yields nothing
find_properties_object_no_leaf(path, field, properties) ==
    IF properties.k = "str" THEN Dict(<<>>)
    ELSE IF In("items", properties)
         THEN find_properties_object(path, field, Get(properties, <<"items">>))
    ELSE IF In("properties", properties)
         THEN Dict(<< <<Join(Append(path, field)), Get(properties, <<"properties">>)>> >>)
    ELSE IF In("type", properties) /\ is_simple_property(Get(properties, <<"type">>))
         THEN Dict(<<>>)
    ELSE fpo_members(Append(path, field), field, properties, 1, Dict(<<>>))

find_properties_object(path, field, properties) ==
    IF properties.k = "str" THEN Dict(<<>>)
    ELSE IF In("items", properties)
         THEN find_properties_object(path, field, Get(properties, <<"items">>))
    ELSE IF In("properties", properties)
         THEN Dict(<< <<Join(Append(path, field)), Get(properties, <<"properties">>)>> >>)
    ELSE IF In("type", properties) /\ is_simple_property(Get(properties, <<"type">>))
         THEN Dict(<< <<Join(Append(path, field)), None>> >>)
    ELSE fpo_members(Append(path, field), field, properties, 1, Dict(<<>>))

\* variant: combinations of schemas are searched like objects
field_branch_no_combining(field, definition) ==
    IF is_airbyte_column(field) THEN "airbyte"
    ELSE IF ~Has(definition, <<"type">>) THEN "object"
    ELSE IF is_object(Get(definition, <<"type">>)) THEN "object"
    ELSE IF is_array(Get(definition, <<"type">>)) /\ Has(definition, <<"items">>) THEN "array"
    ELSE "none"

\* which branch of the if/elif chain of find_children_streams a field takes
field_branch(field, definition) ==
    IF is_airbyte_column(field) THEN "airbyte"
    ELSE IF is_combining_node(definition) THEN "combining"
    ELSE IF ~Has(definition, <<"type">>) THEN "object"
    ELSE IF is_object(Get(definition, <<"type">>)) THEN "object"
    ELSE IF is_array(Get(definition, <<"type">>)) /\ Has(definition, <<"items">>) THEN "array"
    ELSE "none"

\* variant: every child is handed the properties of its parent
spawn_children_same_properties(self, field, children_properties, json_column_name, is_nested_array) ==
    Only({IF Truthy(found)
          THEN [i \in 1..Len(found.kv) |->
                  initFromParent(self, field, json_column_name, self.properties,
                                 is_nested_array)]
          ELSE <<>> :
            found \in {children_properties}})

\* lines 171-180: one StreamProcessor per key of children_properties
spawn_children(self, field, children_properties, json_column_name, is_nested_array) ==
    Only({IF Truthy(found)
          THEN [i \in 1..Len(found.kv) |->
                  initFromParent(self, field, json_column_name, found.kv[i][2],
                                 is_nested_array)]
          ELSE <<>> :
            found \in {children_properties}})

\* variant: the object branch unnests and the array branch reads the column
children_by_branch_swapped(self, field, definition, branch) ==
    IF branch = "object"
    THEN spawn_children(self, field, find_properties_object(<<>>, field, definition),
                        [fn |-> "unnested_column_value",
                         col |-> normalize_column_name(field, TRUE)],
                        TRUE)
    ELSE IF branch = "array"
         THEN spawn_children(self, field,
                             find_properties_object(<<>>, field, Get(definition, <<"items">>)),
                             [quoted |-> field], FALSE)
    ELSE <<>>

children_by_branch(self, field, definition, branch) ==
    IF branch = "object"
    THEN spawn_children(self, field, find_properties_object(<<>>, field, definition),
                        [quoted |-> field], FALSE)
    ELSE IF branch = "array"
         THEN spawn_children(self, field,
                             find_properties_object(<<>>, field, Get(definition, <<"items">>)),
                             [fn |-> "unnested_column_value",
                              col |-> normalize_column_name(field, TRUE)],
                             TRUE)
    ELSE <<>>

\* the children that one field of self.properties contributes
children_of_field(self, field) ==
    Only({children_by_branch(self, field, definition, field_branch(field, definition)) :
            definition \in {Get(self.properties, field)}})

find_children_streams(self) ==
    Only({LET F[i \in 0..Len(fs)] == IF i = 0 THEN <<>>
                                     ELSE F[i - 1] \o children_of_field(self, fs[i])
          IN F[Len(fs)] :
            fs \in {Keys(self.properties)}})

\* ---- process
\* what process() holds when it starts: from_table and the registry, nothing
\* written, no error raised
start(from_table, table_context) ==
    [skipped |-> FALSE, raised |-> FALSE, error |-> <<>>,
     table_context |-> table_context, from_table |-> from_table,
     names |-> <<>>, files |-> <<>>, children |-> <<>>]

\* variant: a raised error takes the names of the earlier stages back
rebind_rollback(acc, w, is_intermediate, suffix) ==
    IF w.raised
    THEN [acc EXCEPT !.raised = TRUE,
                     !.error = <<w.error @@ [is_intermediate |-> is_intermediate,
                                             suffix |-> suffix]>>,
                     !.table_context = IF Len(acc.names) = 0 THEN acc.table_context
                                       ELSE acc.names[1].before]
    ELSE [acc EXCEPT !.table_context = w.table_context,
                     !.from_table = w.ref,
                     !.names = Append(@, [name |-> w.name,
                                          is_intermediate |-> is_intermediate,
                                          suffix |-> suffix,
                                          before |-> acc.table_context]),
                     !.files = Append(@, w.written)]

\* "from_table = self.write_model(...)" with w the outcome of write_model
rebind(acc, w, is_intermediate, suffix) ==
    IF w.raised
    THEN [acc EXCEPT !.raised = TRUE,
                     !.error = <<w.error @@ [is_intermediate |-> is_intermediate,
                                             suffix |-> suffix]>>]
    ELSE [acc EXCEPT !.table_context = w.table_context,
                     !.from_table = w.ref,
                     !.names = Append(@, [name |-> w.name,
                                          is_intermediate |-> is_intermediate,
                                          suffix |-> suffix,
                                          before |-> acc.table_context]),
                     !.files = Append(@, w.written)]

\* one write_model line of process(); a raised error skips the rest of the method
then_write(self, acc, sql, is_intermediate, suffix) ==
    IF acc.raised THEN acc
    ELSE Only({rebind(acc, w, is_intermediate, suffix) :
                 w \in {write_model(self, acc.table_context, sql, is_intermediate, suffix)}})

\* lines 146-149
json_parsing_stage(self, acc) ==
    Only({then_write(self, a, generate_json_parsing_model(self, a.from_table), TRUE, <<"ab1">>) :
            a \in {acc}})
column_typing_stage(self, acc) ==
    Only({then_write(self, a, generate_column_typing_model(self, a.from_table), TRUE, <<"ab2">>) :
            a \in {acc}})
id_hashing_stage(self, acc) ==
    Only({then_write(self, a, generate_id_hashing_model(self, a.from_table), TRUE, <<"ab3">>) :
            a \in {acc}})
final_stage(self, acc) ==
    Only({then_write(self, a, generate_final_model(self, a.from_table), FALSE, <<>>) :
            a \in {acc}})

\* variant: the children are discovered even after a stage raised
return_children_always(self, acc) ==
    Only({[a EXCEPT !.children = find_children_streams(self)] :
            a \in {acc}})

\* line 150
return_children(self, acc) ==
    Only({IF a.raised THEN a ELSE [a EXCEPT !.children = find_children_streams(self)] :
            a \in {acc}})

\* variant: the typing model reads the table process() was called with
column_typing_stage_rereading(self, acc, from_table) ==
    Only({then_write(self, a, generate_column_typing_model(self, from_table), TRUE, <<"ab2">>) :
            a \in {acc}})

process_rereading_input(self, from_table, table_context) ==
    IF ~Truthy(self.properties)
    THEN [start(from_table, table_context) EXCEPT !.skipped = TRUE]
    ELSE return_children(self,
           final_stage(self,
             id_hashing_stage(self,
               column_typing_stage_rereading(self,
                 json_parsing_stage(self, start(from_table, table_context)), from_table))))

process(self, from_table, table_context) ==
    IF ~Truthy(self.properties)
    THEN [start(from_table, table_context) EXCEPT !.skipped = TRUE]
    ELSE return_children(self,
           final_stage(self,
             id_hashing_stage(self,
               column_typing_stage(self,
                 json_parsing_stage(self, start(from_table, table_context))))))

\* ------------------------------------------------------------------ catalog
KV(key, val) == << <<key>>, val >>
Ty(t) == Dict(<<KV("type", Str(t))>>)
Obj(props) == Dict(<<KV("type", Str("object")), KV("properties", props)>>)
Arr(items) == Dict(<<KV("type", Str("array")), KV("items", items)>>)
EmittedAt == <<"", "airbyte", "emitted", "at">>

PropsEmpty == Dict(<<>>)
PropsMeta == Dict(<< <<EmittedAt, Ty("string")>> >>)
PropsFlat ==
    Dict(<< KV("id", Ty("integer")), KV("B", Ty("boolean")), KV("u", Dict(<<>>)),
            <<EmittedAt, Ty("string")>>, KV("w", Ty("weird")), KV("n", Ty("number")),
            KV("s", Ty("string")), KV("o", Ty("object")), KV("l", Ty("array")) >>)
PropsNested ==
    Dict(<< KV("a", Obj(Dict(<< KV("x", Ty("string")),
                                KV("a", Obj(Dict(<< KV("a", Obj(Dict(<<KV("x", Ty("string"))>>))) >>))) >>))),
            KV("A", Arr(Obj(Dict(<<KV("y", Ty("string"))>>)))),
            KV("t", Arr(Ty("string"))),
            KV("c", Dict(<<KV("oneOf", List(<<Ty("string"), Ty("integer")>>))>>)),
            KV("e", Ty("array")) >>)
PropsSiblings ==
    Dict(<< KV("a", Dict(<< KV("type", Str("object")),
                            KV("p", Dict(<<KV("properties", Dict(<<KV("x", Ty("string"))>>))>>)),
                            KV("q", Dict(<<KV("properties", Dict(<<KV("y", Ty("boolean"))>>))>>)) >>)) >>)

PropsUsers ==
    Dict(<< KV("id", Ty("integer")), KV("name", Ty("string")),
            KV("addresses", Arr(Obj(Dict(<< KV("street", Ty("string")),
                                            KV("city", Ty("string")) >>)))) >>)

\* the streams a catalog is drawn from: <<stream name, properties>>
Streams ==
    << << <<"a">>, PropsNested >>,
       << <<"A">>, PropsFlat >>,
       << <<"a", "1">>, PropsFlat >>,
       << <<"a", "1", "ab1">>, PropsMeta >>,
       << <<"a", "2", "ab1">>, PropsSiblings >>,
       << <<"b">>, PropsEmpty >>,
       << <<"b">>, PropsSiblings >>,
       << <<"users">>, PropsUsers >> >>
NumStreams == Len(Streams)
StreamName(s) == Streams[s][1]
StreamProps(s) == Streams[s][2]

RawSchemas == {"raw", "public"}
FinalSchema == "public"

RECURSIVE SortedSeq(_)
SortedSeq(S) == IF S = {} THEN <<>>
                ELSE LET m == CHOOSE x \in S : \A y \in S : x <= y
                     IN <<m>> \o SortedSeq(S \ {m})

Catalogs == {C \in SUBSET (1..NumStreams) : Cardinality(C) >= 1 /\ Cardinality(C) <= MaxStreams}

\* the StreamProcessor the driver builds for stream s of the catalog
RootProcessor(s, raw_schema) ==
    init(StreamName(s), "out", raw_schema, FinalSchema, [col |-> <<"", "airbyte", "data">>],
         StreamProps(s))

RootFromTable(s) == [source |-> <<"", "airbyte", "raw">> \o StreamName(s)]

\* -------------------------------------------------------------------- state
VARIABLES
    nodes,          \* every StreamProcessor created so far, with the from_table it is to read
    table_context,  \* the registry of table names of the run
    files,          \* the output_sql_file calls so far, in order
    allocated,      \* the names generate_new_table_name returned so far, in order,
                    \* each with the registry it was called with
    error           \* <<>> or <<the exception that ended the run>>

vars == <<nodes, table_context, files, allocated, error>>

Init ==
    /\ \E C \in Catalogs, raw_schema \in RawSchemas :
          nodes = [i \in 1..Cardinality(C) |->
                     [self |-> RootProcessor(SortedSeq(C)[i], raw_schema),
                      from_table |-> RootFromTable(SortedSeq(C)[i]),
                      parent_id |-> 0,
                      status |-> "pending",
                      ret |-> <<>>]]
    /\ table_context = {}
    /\ files = <<>>
    /\ allocated = <<>>
    /\ error = <<>>

Tag(seq, n) == [i \in 1..Len(seq) |-> seq[i] @@ [node |-> n]]

\* the state after process() on node n came out as r
Outcome(n, r) ==
    /\ table_context' = r.table_context
    /\ files' = files \o Tag(r.files, n)
    /\ allocated' = allocated \o Tag(r.names, n)
    /\ error' = Tag(r.error, n)
    /\ nodes' = [nodes EXCEPT ![n].status = IF r.skipped THEN "skipped"
                                            ELSE IF r.raised THEN "failed" ELSE "done",
                              ![n].ret = IF r.skipped \/ r.raised THEN <<>>
                                         ELSE <<r.from_table>>]
                \o [i \in 1..Len(r.children) |->
                      [self |-> r.children[i],
                       from_table |-> r.from_table,
                       parent_id |-> n,
                       status |-> "pending",
                       ret |-> <<>>]]

\* one call of process() on a pending StreamProcessor; the children it
\* returns become pending, reading the table the call returned
Process(n) ==
    /\ error = <<>>
    /\ nodes[n].status = "pending"
    /\ \E r \in {process(nodes[n].self, nodes[n].from_table, table_context)} : Outcome(n, r)

Next == \E n \in DOMAIN nodes : Process(n)

Spec == Init /\ [][Next]_vars

\* the driver does not stop while a StreamProcessor is waiting
FairSpec == Spec /\ WF_vars(Next)

\* ------------------------------------------------------------------- claims
IsRoot(n) == nodes[n].parent_id = 0
BaseName(n) == [i \in 1..Len(nodes[n].self.stream_name) |-> Lower(nodes[n].self.stream_name[i])]
\* the candidate b_i_s (b_i when s is empty)
Candidate(b, i, s) == b \o <<IntStr(i)>> \o s
\* allocation k went through the suffix loop
IsIntermediateAllocation(k) == allocated[k].is_intermediate \/ ~IsRoot(allocated[k].node)
FilesOf(n) == SelectSeq(files, LAMBDA f : f.node = n)
NoUserField(props) ==
    ~IsDict(props) \/ \A i \in 1..Len(props.kv) : is_airbyte_column(props.kv[i][1])

\* C1: the table names returned by generate_new_table_name so far are
\* pairwise distinct, over all stages of all nodes.
C1_NamesDistinct ==
    \A i, j \in DOMAIN allocated : i # j => allocated[i].name # allocated[j].name

\* two different nodes with the same base table name both got their names
C1_Witness ==
    \E i, j \in DOMAIN allocated :
        /\ allocated[i].node # allocated[j].node
        /\ BaseName(allocated[i].node) = BaseName(allocated[j].node)
        /\ Len(allocated) >= 8

\* C2: the registry is append-only: every step leaves every name that was
\* in the registry in it.
C2_AppendOnly == [][table_context \subseteq table_context']_vars

\* a run in which names were allocated, a node was skipped and an
\* allocation failed
C2_Witness ==
    /\ error # <<>>
    /\ Cardinality(table_context) >= 4
    /\ \E n \in DOMAIN nodes : nodes[n].status = "skipped"

\* C3: process() on a node without any non-internal field (no field at all,
\* or airbyte columns only) writes no model, adds no name to the registry
\* and returns no children.
C3_EmptyStreamLaw ==
    [][\A n \in DOMAIN nodes :
          (nodes[n].status = "pending" /\ nodes'[n].status # "pending"
           /\ NoUserField(nodes[n].self.properties))
          => (table_context' = table_context /\ files' = files /\ allocated' = allocated
              /\ Len(nodes') = Len(nodes))]_vars

\* C4: every allocation that is not the final table of a top-level stream
\* returns the candidate b_i_s with the smallest i in 1..MaxAttempts that was
\* not in the registry when it was called, and the name is in the registry
\* afterwards.
C4_SmallestFreeSuffix ==
    \A k \in DOMAIN allocated :
        IsIntermediateAllocation(k) =>
            LET b == BaseName(allocated[k].node)
                s == allocated[k].suffix
            IN /\ \E i \in 1..MaxAttempts :
                    /\ allocated[k].name = Candidate(b, i, s)
                    /\ Candidate(b, i, s) \notin allocated[k].before
                    /\ \A j \in 1..(i - 1) : Candidate(b, j, s) \in allocated[k].before
               /\ allocated[k].name \in table_context

\* an intermediate stage and the final table of a nested node both had to
\* step over a taken candidate
C4_Witness ==
    /\ \E k \in DOMAIN allocated :
          /\ allocated[k].is_intermediate
          /\ Candidate(BaseName(allocated[k].node), 1, allocated[k].suffix) \in allocated[k].before
    /\ \E k \in DOMAIN allocated :
          /\ ~allocated[k].is_intermediate /\ ~IsRoot(allocated[k].node)
          /\ Candidate(BaseName(allocated[k].node), 1, <<>>) \in allocated[k].before

\* the failed allocation found every candidate of the suffix loop taken
Exhausted ==
    /\ error # <<>>
    /\ error[1].is_intermediate \/ ~IsRoot(error[1].node)
    /\ \A i \in 1..MaxAttempts :
          Candidate(BaseName(error[1].node), i, error[1].suffix) \in table_context

\* C5: when every candidate i = 1..MaxAttempts of an intermediate allocation
\* is taken, the run ends with an error of its own, which is not the
\* duplicate-table error, and nothing is inserted.
C5_ExhaustionHasOwnError ==
    Exhausted => ~(error[1].exc = "KeyError" /\ error[1].msg = "Duplicate table")

\* C6: the final table of a top-level stream is named by the normalized
\* stream name alone, without numeric or stage suffix, whatever is in the
\* registry, and the name is registered.
C6_TopLevelKeepsName ==
    \A k \in DOMAIN allocated :
        (~allocated[k].is_intermediate /\ IsRoot(allocated[k].node)) =>
            /\ allocated[k].name = BaseName(allocated[k].node)
            /\ allocated[k].name \in table_context

\* a top-level final table was named while the registry held names of other
\* nodes, among them the first suffixed candidate of its own base name
C6_Witness ==
    \E k \in DOMAIN allocated :
        /\ ~allocated[k].is_intermediate /\ IsRoot(allocated[k].node)
        /\ Candidate(BaseName(allocated[k].node), 1, <<>>) \in allocated[k].before

\* C7: register_new_table never raises: no run asks twice for the same name.
C7_DuplicateUnreachable ==
    ~(error # <<>> /\ error[1].msg = "Duplicate table")

\* C8: the stages of a node form a chain: the first model reads the table
\* process() was called with, every later one the table the write before it
\* returned, process() returns what the final write returned, and no model
\* after the first reads the input of process().
C8_StageChain ==
    \A n \in DOMAIN nodes :
        LET fs == FilesOf(n)
        IN /\ Len(fs) <= 4
           /\ \A k \in 1..Len(fs) :
                 /\ fs[k].sql.template = <<"json_parsing", "column_typing", "id_hashing", "final">>[k]
                 /\ k = 1 => fs[k].sql.from_table = nodes[n].from_table
                 /\ k > 1 => /\ fs[k].sql.from_table = [ref |-> fs[k - 1].file]
                             /\ fs[k].sql.from_table # nodes[n].from_table
           /\ nodes[n].status = "done" => /\ Len(fs) = 4
                                          /\ nodes[n].ret = <<[ref |-> fs[4].file]>>

\* a nested node, whose input is the final table of its parent, is done
C8_Witness ==
    \E n \in DOMAIN nodes :
        /\ ~IsRoot(n)
        /\ nodes[n].status = "done"
        /\ nodes[n].from_table = nodes[nodes[n].parent_id].ret[1]

\* C9: the first three models of every node go to the views directory with
\* the raw schema in their header, the final model alone to the tables
\* directory with the final schema in its header.
C9_StagingAndFinalArea ==
    \A k \in DOMAIN files :
        LET f == files[k]
            self == nodes[f.node].self
        IN IF f.sql.template = "final"
           THEN f.output_dir[2] = "airbyte_tables" /\ f.header.config_schema = self.schema
           ELSE f.output_dir[2] = "airbyte_views" /\ f.header.config_schema = self.raw_schema

\* a top-level and a nested node wrote their four models, raw and final
\* schema being different
C9_Witness ==
    /\ \E n \in DOMAIN nodes : /\ IsRoot(n)
                               /\ Len(FilesOf(n)) = 4
                               /\ nodes[n].self.raw_schema # nodes[n].self.schema
    /\ \E n \in DOMAIN nodes : ~IsRoot(n) /\ Len(FilesOf(n)) = 4

\* the name of the output column of one select item
ColumnName(item) == IF "as" \in DOMAIN item THEN item.as ELSE item.col
\* the output columns of the json parsing and column typing templates
OutputColumns(sql) ==
    (IF sql.parent_hash_id # <<>> THEN <<sql.parent_hash_id>> ELSE <<>>)
    \o [i \in 1..Len(sql.fields) |-> ColumnName(sql.fields[i])]
    \o <<EmittedAt>>

\* C10: the column typing model of a node has the output columns of its json
\* parsing model: same names, same order, parent hash id and emission
\* timestamp included.
C10_ColumnParity ==
    \A n \in DOMAIN nodes :
        LET fs == FilesOf(n)
        IN Len(fs) >= 2 => OutputColumns(fs[2].sql) = OutputColumns(fs[1].sql)

KindsOf(props) == {IF Has(props.kv[i][2], <<"type">>) THEN Get(props.kv[i][2], <<"type">>).s
                   ELSE "" : i \in 1..Len(props.kv)}

\* both models were written for a node with untyped, unknown, boolean,
\* object and array fields, and for a nested node
C10_Witness ==
    /\ \E n \in DOMAIN nodes :
          /\ Len(FilesOf(n)) >= 2
          /\ {"", "weird", "boolean", "object", "array"} \subseteq KindsOf(nodes[n].self.properties)
    /\ \E n \in DOMAIN nodes : Len(FilesOf(n)) >= 2 /\ ~IsRoot(n)


\* the hash id column of node n, spelled out
HashIdOf(n) == <<"", "airbyte">> \o BaseName(n) \o <<"hashid">>
\* the declared fields of node n that are not airbyte columns, in declaration order
DeclaredFields(n) ==
    SelectSeq([i \in 1..Len(nodes[n].self.properties.kv) |-> nodes[n].self.properties.kv[i][1]],
              LAMBDA f : ~(Len(f) >= 3 /\ f[1] = "" /\ f[2] = "airbyte"))
LowerName(f) == [i \in 1..Len(f) |-> Lower(f[i])]
\* the select list of the final template
FinalColumns(sql) ==
    (IF sql.parent_hash_id # <<>> THEN <<sql.parent_hash_id>> ELSE <<>>)
    \o sql.fields \o <<EmittedAt>> \o <<sql.hash_id>>

\* C11: the final model of a node selects exactly: the hash id of the parent
\* (if and only if there is a parent), every declared non-internal field once
\* in declaration order, the emission timestamp, the node's own hash id.
C11_FinalColumns ==
    \A n \in DOMAIN nodes :
        Len(FilesOf(n)) = 4 =>
            FinalColumns(FilesOf(n)[4].sql) =
                (IF IsRoot(n) THEN <<>> ELSE <<HashIdOf(nodes[n].parent_id)>>)
                \o [i \in 1..Len(DeclaredFields(n)) |-> LowerName(DeclaredFields(n)[i])]
                \o <<EmittedAt>> \o <<HashIdOf(n)>>

\* the final model was written for a top-level stream that declares an
\* airbyte column among its fields, and for a nested stream
C11_Witness ==
    /\ \E n \in DOMAIN nodes :
          /\ Len(FilesOf(n)) = 4
          /\ Len(DeclaredFields(n)) >= 2
          /\ Len(DeclaredFields(n)) < Len(nodes[n].self.properties.kv)
    /\ \E n \in DOMAIN nodes : Len(FilesOf(n)) = 4 /\ ~IsRoot(n)

\* the list handed to dbt_utils.surrogate_key by the id hashing template
SurrogateKeyInputs(sql) ==
    (IF sql.parent_hash_id # <<>> THEN <<[quoted |-> sql.parent_hash_id]>> ELSE <<>>)
    \o sql.fields
\* the column an entry of the list reads
InputColumn(entry) == IF "quoted" \in DOMAIN entry THEN entry.quoted ELSE entry.col

\* C12: the surrogate key of a nested node is computed over the hash id of
\* its parent first, then one entry per declared non-internal field in
\* declaration order; for a top-level node over the field entries only.
C12_HashChaining ==
    \A n \in DOMAIN nodes :
        Len(FilesOf(n)) >= 3 =>
            LET inputs == SurrogateKeyInputs(FilesOf(n)[3].sql)
            IN [i \in 1..Len(inputs) |-> InputColumn(inputs[i])] =
                   (IF IsRoot(n) THEN <<>> ELSE <<HashIdOf(nodes[n].parent_id)>>)
                   \o [i \in 1..Len(DeclaredFields(n)) |->
                         <<"'">> \o LowerName(DeclaredFields(n)[i]) \o <<"'">>]

\* the id hashing model was written for a nested node whose table name is
\* not the one of its parent
C12_Witness ==
    \E n \in DOMAIN nodes :
        /\ ~IsRoot(n)
        /\ Len(FilesOf(n)) >= 3
        /\ BaseName(n) # BaseName(nodes[n].parent_id)
        /\ Len(DeclaredFields(n)) >= 1


\* the nodes created for field f of node n
ChildrenOf(n, f) == {m \in DOMAIN nodes : nodes[m].parent_id = n /\ nodes[m].self.stream_name = f}
\* a schema that declares an object with properties
ObjectWithProperties(d) ==
    /\ IsDict(d)
    /\ Has(d, <<"properties">>)
    /\ ~Has(d, <<"items">>)
    /\ Has(d, <<"type">>) /\ Get(d, <<"type">>) = Str("object")
\* a schema that declares an array whose items are objects with properties
ArrayOfObjects(d) ==
    /\ IsDict(d)
    /\ Has(d, <<"type">>) /\ Get(d, <<"type">>) = Str("array")
    /\ Has(d, <<"items">>) /\ ObjectWithProperties(Get(d, <<"items">>))
\* a field that is neither an airbyte column nor a combination of schemas
PlainField(n, i) ==
    /\ \E j \in 1..Len(DeclaredFields(n)) : DeclaredFields(n)[j] = nodes[n].self.properties.kv[i][1]
    /\ ~Has(nodes[n].self.properties.kv[i][2], <<"anyOf">>)
    /\ ~Has(nodes[n].self.properties.kv[i][2], <<"oneOf">>)
    /\ ~Has(nodes[n].self.properties.kv[i][2], <<"allOf">>)

\* C13: of a processed node, a field that is an array of objects with
\* properties has exactly one child, flagged as nested array and reading the
\* unnested column value of the field; a field that is an object with
\* properties has exactly one child, not flagged and reading the quoted field.
C13_ArrayVsObjectChild ==
    \A n \in DOMAIN nodes :
        nodes[n].status = "done" =>
            \A i \in 1..Len(nodes[n].self.properties.kv) :
                LET f == nodes[n].self.properties.kv[i][1]
                    d == nodes[n].self.properties.kv[i][2]
                IN PlainField(n, i) =>
                    /\ ArrayOfObjects(d) =>
                          /\ Cardinality(ChildrenOf(n, f)) = 1
                          /\ \A m \in ChildrenOf(n, f) :
                                /\ nodes[m].self.is_nested_array = TRUE
                                /\ nodes[m].self.json_column_name =
                                       [fn |-> "unnested_column_value",
                                        col |-> <<"'">> \o LowerName(f) \o <<"'">>]
                                /\ nodes[m].self.properties = Get(Get(d, <<"items">>), <<"properties">>)
                    /\ ObjectWithProperties(d) =>
                          /\ Cardinality(ChildrenOf(n, f)) = 1
                          /\ \A m \in ChildrenOf(n, f) :
                                /\ nodes[m].self.is_nested_array = FALSE
                                /\ nodes[m].self.json_column_name = [quoted |-> f]
                                /\ nodes[m].self.properties = Get(d, <<"properties">>)

\* a processed node with a field of each of the two kinds
C13_Witness ==
    \E n \in DOMAIN nodes :
        /\ nodes[n].status = "done"
        /\ \E i, j \in 1..Len(nodes[n].self.properties.kv) :
              /\ PlainField(n, i) /\ ArrayOfObjects(nodes[n].self.properties.kv[i][2])
              /\ PlainField(n, j) /\ ObjectWithProperties(nodes[n].self.properties.kv[j][2])
              /\ ChildrenOf(n, nodes[n].self.properties.kv[i][1]) # {}
              /\ ChildrenOf(n, nodes[n].self.properties.kv[j][1]) # {}


\* the run compiled the single stream users and has nothing left to process
UsersCompiled ==
    /\ error = <<>>
    /\ \A n \in DOMAIN nodes : nodes[n].status # "pending"
    /\ {n \in DOMAIN nodes : IsRoot(n)} = {1}
    /\ nodes[1].self.stream_name = <<"users">>
    /\ nodes[1].self.properties = PropsUsers
\* the names of one node on base b with index i
FourNames(b, i) ==
    {Candidate(b, i, <<"ab1">>), Candidate(b, i, <<"ab2">>), Candidate(b, i, <<"ab3">>)}

\* C14: compiling the single stream users registers exactly eight names:
\* users_1_ab1, users_1_ab2, users_1_ab3 and users for the root, and
\* addresses_1_ab1, addresses_1_ab2, addresses_1_ab3 and addresses_1 for the
\* child, which is named after the bare field.
C14_UsersExample ==
    UsersCompiled =>
        /\ Cardinality(table_context) = 8
        /\ table_context = FourNames(<<"users">>, 1) \cup {<<"users">>}
                           \cup FourNames(<<"addresses">>, 1) \cup {<<"addresses", "1">>}
        /\ \A k \in 1..Len(allocated) :
              allocated[k].node # 1 =>
                  /\ nodes[allocated[k].node].parent_id = 1
                  /\ nodes[allocated[k].node].self.is_nested_array
                  /\ SubSeq(allocated[k].name, 1, 1) = <<"addresses">>

C14_Witness == UsersCompiled /\ Len(allocated) = 8

\* C14 as stated: the four names of the child are derived from the
\* parent-qualified base name users_addresses
C14_ParentQualifiedNames ==
    UsersCompiled =>
        /\ Cardinality(table_context) = 8
        /\ <<"users">> \in table_context
        /\ \A k \in 1..Len(allocated) :
              allocated[k].node # 1 =>
                  /\ Len(allocated[k].name) >= 2
                  /\ SubSeq(allocated[k].name, 1, 2) = <<"users", "addresses">>


\* the suffixes of the four stages, in the order process() writes them
StageSuffixes == << <<"ab1">>, <<"ab2">>, <<"ab3">>, <<>> >>
\* name is b itself or a candidate b_i or b_i_s of some stage
OnBase(name, b) ==
    \/ name = b
    \/ \E i \in 1..9, j \in 1..4 : name = Candidate(b, i, StageSuffixes[j])
\* allocations k..k+3 are the four stages of one nested node and k+4..k+7
\* the four stages of another nested node with the same table name, and no
\* name on that base was registered before
TwoInARow(k) ==
    /\ k + 7 <= Len(allocated)
    /\ allocated[k].node # allocated[k + 4].node
    /\ ~IsRoot(allocated[k].node) /\ ~IsRoot(allocated[k + 4].node)
    /\ BaseName(allocated[k].node) = BaseName(allocated[k + 4].node)
    /\ \A j \in 0..3 : /\ allocated[k + j].node = allocated[k].node
                       /\ allocated[k + 4 + j].node = allocated[k + 4].node
    /\ \A x \in allocated[k].before : ~OnBase(x, BaseName(allocated[k].node))

RECURSIVE PartOf(_, _)
\* v occurs inside w, at any depth below the top
PartOf(v, w) ==
    IF w.k = "dict"
    THEN \E i \in 1..Len(w.kv) : w.kv[i][2] = v \/ PartOf(v, w.kv[i][2])
    ELSE IF w.k = "list"
         THEN \E i \in 1..Len(w.xs) : w.xs[i] = v \/ PartOf(v, w.xs[i])
    ELSE FALSE
NoPending == \A n \in DOMAIN nodes : nodes[n].status # "pending"
\* the properties of a nested node are empty or a part of its parent's
ChildIsPart ==
    \A n \in DOMAIN nodes :
        ~IsRoot(n) =>
            \/ nodes[n].self.properties = None
            \/ PartOf(nodes[n].self.properties, nodes[nodes[n].parent_id].self.properties)
\* a node that was processed is never processed again
ProcessedOnce ==
    \A n \in DOMAIN nodes :
        nodes[n].status # "pending" => (n \in DOMAIN nodes' /\ nodes'[n] = nodes[n])

\* C16: processing pending nodes and adding the children each call returns
\* eventually leaves no pending node, or aborts on a naming error; a node is
\* processed at most once and the properties of a child are a strict part of
\* the properties of its parent.
C16_Termination ==
    /\ <>(NoPending \/ error # <<>>)
    /\ [][ProcessedOnce]_vars
    /\ []ChildIsPart

\* a run ended without error after processing the nested nodes that the
\* top-level streams returned
C16_Witness ==
    /\ NoPending /\ error = <<>>
    /\ \E n, m \in DOMAIN nodes :
          /\ n # m
          /\ ~IsRoot(n) /\ ~IsRoot(m)
          /\ nodes[n].status = "done" /\ nodes[m].status = "done"


\* field i of node n is of a kind that child discovery searches: not an
\* airbyte column, not a combination, and without type, an object or an
\* array with items
Searched(n, i) ==
    /\ PlainField(n, i)
    /\ \/ ~Has(nodes[n].self.properties.kv[i][2], <<"type">>)
       \/ Get(nodes[n].self.properties.kv[i][2], <<"type">>) = Str("object")
       \/ /\ Get(nodes[n].self.properties.kv[i][2], <<"type">>) = Str("array")
          /\ Has(nodes[n].self.properties.kv[i][2], <<"items">>)

\* C17: a node has children only for fields that are searched: none for an
\* airbyte column, for a field with oneOf/anyOf/allOf, for a field of scalar
\* type or for an array without items.
C17_ChildrenOnlyOfSearchedFields ==
    /\ \A m \in DOMAIN nodes :
          ~IsRoot(m) =>
              \E i \in 1..Len(nodes[nodes[m].parent_id].self.properties.kv) :
                  /\ nodes[nodes[m].parent_id].self.properties.kv[i][1] = nodes[m].self.stream_name
                  /\ Searched(nodes[m].parent_id, i)
    /\ \A n \in DOMAIN nodes :
          nodes[n].status = "done" =>
              \A i \in 1..Len(nodes[n].self.properties.kv) :
                  ~Searched(n, i) => ChildrenOf(n, nodes[n].self.properties.kv[i][1]) = {}

\* fields that are not searched: an airbyte column, a combination, a scalar,
\* an array without items
NotSearchedKinds(n) ==
    {IF ~PlainField(n, i)
     THEN (IF Has(nodes[n].self.properties.kv[i][2], <<"oneOf">>) THEN "combining" ELSE "airbyte")
     ELSE Get(nodes[n].self.properties.kv[i][2], <<"type">>).s :
        i \in {j \in 1..Len(nodes[n].self.properties.kv) : ~Searched(n, j)}}

\* processed nodes had fields of each kind that is not searched, and one of
\* them has children for its other fields
C17_Witness ==
    /\ \E n \in DOMAIN nodes :
          /\ nodes[n].status = "done"
          /\ {"combining", "array"} \subseteq NotSearchedKinds(n)
          /\ \E m \in DOMAIN nodes : nodes[m].parent_id = n
    /\ \E n \in DOMAIN nodes :
          /\ nodes[n].status = "done"
          /\ {"airbyte", "integer", "string", "boolean", "number"} \subseteq NotSearchedKinds(n)


\* the positions in the allocation history that belong to node n
AllocationsOf(n) == {k \in DOMAIN allocated : allocated[k].node = n}

\* C18: the names of a node are allocated in the order of the stages
\* (ab1, ab2, ab3, final) with no allocation of another node in between; a
\* node has children only once its four names are allocated, and the
\* children allocate after them; a node whose processing raised has no child.
C18_StageOrder ==
    /\ \A n \in DOMAIN nodes :
          LET ks == AllocationsOf(n)
          IN ks # {} =>
                LET first == CHOOSE k \in ks : \A j \in ks : k <= j
                IN /\ ks = first..(first + Cardinality(ks) - 1)
                   /\ Cardinality(ks) <= 4
                   /\ \A k \in ks : allocated[k].suffix = StageSuffixes[k - first + 1]
    /\ \A m \in DOMAIN nodes :
          ~IsRoot(m) =>
              /\ nodes[nodes[m].parent_id].status = "done"
              /\ Cardinality(AllocationsOf(nodes[m].parent_id)) = 4
              /\ \A k \in AllocationsOf(m), j \in AllocationsOf(nodes[m].parent_id) : j < k
    /\ \A n \in DOMAIN nodes :
          nodes[n].status = "failed" => ~\E m \in DOMAIN nodes : nodes[m].parent_id = n

\* one node wrote its four models after another node did, a nested node
\* allocated its names, and the run then aborted in a node that has a field
\* child discovery would have searched
C18_Witness ==
    /\ \E n \in DOMAIN nodes :
          /\ nodes[n].status = "failed"
          /\ AllocationsOf(n) # {}
          /\ \E i \in 1..Len(nodes[n].self.properties.kv) : Searched(n, i)
    /\ \E m \in DOMAIN nodes :
          /\ ~IsRoot(m)
          /\ Cardinality(AllocationsOf(m)) = 4
          /\ \E k \in AllocationsOf(m) : k > 5


\* a schema that declares an array whose items are of a scalar type
ArrayOfScalars(d) ==
    /\ IsDict(d)
    /\ Has(d, <<"type">>) /\ Get(d, <<"type">>) = Str("array")
    /\ Has(d, <<"items">>)
    /\ Get(d, <<"items">>) \in {Ty("string"), Ty("integer"), Ty("number"), Ty("boolean")}

\* C19: a field that is an array of scalars gives one child without
\* properties; a node without properties is skipped when it is processed: it
\* allocates no name, writes no model and has no child.
C19_LeafChildIsSkipped ==
    /\ \A n \in DOMAIN nodes :
          nodes[n].status = "done" =>
              \A i \in 1..Len(nodes[n].self.properties.kv) :
                  (PlainField(n, i) /\ ArrayOfScalars(nodes[n].self.properties.kv[i][2])) =>
                      /\ Cardinality(ChildrenOf(n, nodes[n].self.properties.kv[i][1])) = 1
                      /\ \A m \in ChildrenOf(n, nodes[n].self.properties.kv[i][1]) :
                            nodes[m].self.properties = None
    /\ \A m \in DOMAIN nodes :
          nodes[m].self.properties = None =>
              /\ nodes[m].status \in {"pending", "skipped"}
              /\ AllocationsOf(m) = {}
              /\ FilesOf(m) = <<>>
              /\ ~\E c \in DOMAIN nodes : nodes[c].parent_id = m

\* the child of an array of scalars was processed, and the run went on with
\* another node
C19_Witness ==
    /\ error = <<>>
    /\ \E n \in DOMAIN nodes : ~IsRoot(n) /\ Cardinality(AllocationsOf(n)) = 4
    /\ \E m \in DOMAIN nodes :
          /\ ~IsRoot(m)
          /\ nodes[m].self.properties = None
          /\ nodes[m].status = "skipped"
          /\ nodes[m].self.is_nested_array


\* C20: the indexed names of one node all carry the same index: the three
\* intermediate names and, for a nested node, the final name.
C20_OneIndexPerNode ==
    \A n \in DOMAIN nodes :
        \E i \in 1..MaxAttempts :
            \A k \in AllocationsOf(n) :
                IsIntermediateAllocation(k) =>
                    allocated[k].name = Candidate(BaseName(n), i, allocated[k].suffix)


\* C21: the final model of a nested node names the hash id of its parent
\* and its own hash id differently, so no column name is selected twice.
C21_HashIdsDiffer ==
    \A n \in DOMAIN nodes :
        (~IsRoot(n) /\ Len(FilesOf(n)) = 4) =>
            /\ FilesOf(n)[4].sql.parent_hash_id # FilesOf(n)[4].sql.hash_id
            /\ \A i, j \in 1..Len(FinalColumns(FilesOf(n)[4].sql)) :
                  i # j => FinalColumns(FilesOf(n)[4].sql)[i] # FinalColumns(FilesOf(n)[4].sql)[j]


\* the number of the stage that writes with this suffix: 1 for ab1 .. 4 for
\* the final table
StageOf(suffix) == CHOOSE k \in 1..4 : StageSuffixes[k] = suffix
DoneNodes == {n \in DOMAIN nodes : nodes[n].status = "done"}
FailedNodes == {n \in DOMAIN nodes : nodes[n].status = "failed"}

\* C22: a call of process() that completes on a node with properties adds
\* four names to the registry; a call that raises at stage k leaves the k-1
\* names of the earlier stages and adds nothing for stage k; a skipped node
\* adds nothing.  The registry therefore holds four names per completed node
\* and at most three names of the one node that raised.
C22_RegistryAccounting ==
    /\ \A k \in DOMAIN allocated :
          /\ allocated[k].name \notin allocated[k].before
          /\ allocated[k].before =
                IF k = 1 THEN {} ELSE allocated[k - 1].before \cup {allocated[k - 1].name}
    /\ table_context = {allocated[k].name : k \in DOMAIN allocated}
    /\ \A n \in DOMAIN nodes :
          /\ nodes[n].status = "done" =>
                (Truthy(nodes[n].self.properties) /\ Cardinality(AllocationsOf(n)) = 4)
          /\ nodes[n].status \in {"pending", "skipped"} => AllocationsOf(n) = {}
          /\ nodes[n].status = "failed" =>
                /\ error # <<>> /\ error[1].node = n
                /\ Cardinality(AllocationsOf(n)) = StageOf(error[1].suffix) - 1
    /\ Cardinality(FailedNodes) <= 1
    /\ Cardinality(table_context) =
          4 * Cardinality(DoneNodes)
          + Cardinality(UNION {AllocationsOf(n) : n \in FailedNodes})
    /\ Cardinality(UNION {AllocationsOf(n) : n \in FailedNodes}) <= 3

\* a node raised at its final stage after three names, in a run where
\* another node completed and a node was skipped
C22_Witness ==
    /\ \E n \in FailedNodes : Cardinality(AllocationsOf(n)) = 3
    /\ DoneNodes # {}
    /\ \E n \in DOMAIN nodes : nodes[n].status = "skipped"

====
